---- MODULE Spec2Model ----
(***************************************************************************)
(* Model of the economic_system simulation: the firm agent                 *)
(* (agent_industry.py) and the model step with its aggregates (model.py).  *)
(*                                                                         *)
(* Money is an integer number of currency units.  Rates are integers in    *)
(* per cent (tax rate, sells fraction, bankruptcy ratio) or per mille      *)
(* (profit rate).  The initial draws are chosen so that every division of  *)
(* the code is exact on every reachable value (see ExactArithmetic), so    *)
(* the integer operators compute what the code computes in real numbers.   *)
(* A random draw of the code is an \E over a finite subset of its range.   *)
(***************************************************************************)
EXTENDS Integers, FiniteSets, Sequences, TLC

VARIABLES
    firms,               \* the IndustryAgent objects in the schedule, by cell
    workers,             \* the WorkerAgent objects that exist
    bankrupt,            \* the bankrupt argument of the model, in per cent
    nworkers,            \* number of WorkerAgent objects asked for
    nsteps,              \* self.nsteps
    steps,               \* self.schedule.steps
    running,             \* self.running
    gdp,                 \* self.gdp
    work_force,          \* self.work_force
    employment,          \* self.employment
    max_size_services,   \* self.max_size_services
    max_size_industry,   \* self.max_size_industry
    max_size_industries, \* self.max_size_industries
    model_vars,          \* latest row of the datacollector's model series
    pc,                  \* position of the caller: "idle", "agents", "failed"
    todo,                \* agents the scheduler has still to visit in this step
    calls,               \* number of calls of EconomicSystemModel.step so far
    err                  \* exception raised by the latest call, or NoError

vars == << firms, workers, bankrupt, nworkers, nsteps, steps, running, gdp,
           work_force, employment, max_size_services, max_size_industry,
           max_size_industries, model_vars, pc, todo, calls, err >>

----------------------------------------------------------------------------
(* Bounds of the model *)

NumFirms == 2
MaxCalls == 2
MaxWorkers == 1

----------------------------------------------------------------------------
(* Program constants *)

Industry == 0
Services == 1
Bankrupt == -1
AllSectors == -2

MinOpex == 1000
MinSalary == 600
MinProfitRate == 1001
LowFracIndustry == 94
LowFracOther == 90
BankruptPct == 5
TaxIndustry == 10
TaxServices == 20
BankruptDefault == 5
WorkerWorth == 1000
WorkerSalary == 600
IncomeTaxPct == 30

PerCent == 100
PerMille == 1000
SellsGrid == 10

NoError == "none"
ErrMaxEmpty == "ValueError: max() arg is an empty sequence"
ErrWorker == "ValueError: a and p must have same size"
ErrZeroDiv == "ZeroDivisionError"
ErrAttribute == "AttributeError: career_decision"
Unassigned == -1

Cells == 1..NumFirms

\* The values of the bankrupt argument explored: the default of the
\* constructor, and twice the default (the slider offers 1 to 50).
BankruptConfigs == {BankruptDefault, 2 * BankruptDefault}

\* The horizons nsteps explored: the run halts in the last call the model
\* makes, or one call before it.
Horizons == { n \in {MaxCalls - 1, MaxCalls} : n >= 1 }

----------------------------------------------------------------------------
(* Initial conditions of a firm: agent_industry.py, ic_* and __init__ *)

ic_opex(draw) == IF draw >= MinOpex THEN draw ELSE MinOpex

\* Mutant of ic_capex: the debt drawn goes down to -10% of opex.
ic_capex_wide(opex, pct) ==
    IF pct < 0 THEN (10 * pct * opex) \div PerCent ELSE (pct * opex) \div PerCent

ic_capex(opex, pct) == (pct * opex) \div PerCent

ic_salary(type, draw) == IF draw >= MinSalary THEN draw ELSE MinSalary

\* Mutant of ic_employees: the floor of one employee is left out.
ic_employees_unfloored(type, opex, salary, opex_fc) ==
    (opex_fc * opex) \div (PerCent * salary)

ic_employees(type, opex, salary, opex_fc) ==
    LET employees == (opex_fc * opex) \div (PerCent * salary)
    IN  IF employees >= 1 THEN employees ELSE 1

ic_profit_rate(type, draw) == IF draw >= MinProfitRate THEN draw ELSE MinProfitRate

ic_stocks(type, products_value, stocks_fc) == (stocks_fc * products_value) \div PerCent

\* tax_rates[self.type] on the list [tax_industry, tax_services]: index -1 is
\* the last element of the list.
TaxRateOf(type) == IF type = Industry THEN TaxIndustry ELSE TaxServices

\* IndustryAgent.__init__; d holds the outcomes of the random draws.
NewIndustryAgent(type, d) ==
    LET opex == ic_opex(d.opex)
        capex == ic_capex(opex, d.capex_pct)
        salary == ic_salary(type, d.salary)
        employees == ic_employees(type, opex, salary, d.opex_fc)
        profit_rate == ic_profit_rate(type, d.profit_rate)
        products_value == (profit_rate * opex) \div PerMille
    IN  [ type |-> type,
          opex |-> opex,
          capex |-> capex,
          salary |-> salary,
          employees |-> employees,
          profit_rate |-> profit_rate,
          products_value |-> products_value,
          sells |-> 0,
          stocks |-> ic_stocks(type, products_value, d.stocks_fc),
          profit |-> 0,
          tax_rate |-> TaxRateOf(type),
          taxes |-> 0,
          profit_after_tax |-> 0,
          value |-> opex + capex ]

\* Outcomes of one cell's draws that the model explores: the sector drawn
\* for the cell (agent_types) and the draws of the ic_* functions.  Every
\* value lies in the support of the distribution the code draws it from.
\*   1: an Industry firm of 40 employees, slightly in debt
\*   2: a Services firm of 40 employees at the minimum wage and the minimum
\*      profit rate, slightly in debt
\*   3: a one-person Services firm at the minimum opex, with stocks
\*   4: a cell of sector -1, one person, with stocks
InitDraws ==
    << [type |-> Industry, opex |-> 40000, capex_pct |-> -1, salary |-> 1000,
        opex_fc |-> 100, profit_rate |-> 1020, stocks_fc |-> 0],
       [type |-> Services, opex |-> 40000, capex_pct |-> -1, salary |-> 500,
        opex_fc |-> 60, profit_rate |-> 990, stocks_fc |-> 0],
       [type |-> Services, opex |-> 800, capex_pct |-> 0, salary |-> 500,
        opex_fc |-> 50, profit_rate |-> 1050, stocks_fc |-> 10],
       [type |-> Bankrupt, opex |-> 500, capex_pct |-> 5, salary |-> 500,
        opex_fc |-> -20, profit_rate |-> 1040, stocks_fc |-> 5] >>

\* The populations the model explores.  A firm's step reads and writes its
\* own fields only, so the cell a firm sits in does not matter: of all the
\* arrangements of the same firms over the cells, one is explored.
Populations ==
    { idx \in [Cells -> 1..Len(InitDraws)] :
        \A i, j \in Cells : i <= j => idx[i] <= idx[j] }

FirmsOf(idx) ==
    [i \in Cells |-> NewIndustryAgent(InitDraws[idx[i]].type, InitDraws[idx[i]])]

----------------------------------------------------------------------------
(* The phases of a firm's step: agent_industry.py, IndustryAgent *)

run_production(f) ==
    [f EXCEPT !.products_value = (f.profit_rate * f.opex) \div PerMille + f.stocks]

LowFrac(type) == IF type = Industry THEN LowFracIndustry ELSE LowFracOther

\* Least multiple of SellsGrid that is >= num / den, for num >= 0, den > 0.
CeilGrid(num, den) == SellsGrid * ((num + SellsGrid * den - 1) \div (SellsGrid * den))

\* Mutant of SellsDraws: demand may exceed what the firm has to sell,
\* np.random.uniform(low_frac * products_value, 1.06 * products_value).
SellsDraws_over(f) ==
    { CeilGrid(LowFrac(f.type) * f.products_value, PerCent),
      SellsGrid * ((106 * f.products_value) \div (PerCent * SellsGrid)) }

\* Outcomes of np.random.uniform(low_frac * products_value, products_value)
\* the model explores: the two ends of the range, on a grid of SellsGrid.
SellsDraws(f) ==
    { CeilGrid(LowFrac(f.type) * f.products_value, PerCent),
      SellsGrid * (f.products_value \div SellsGrid) }

\* Mutant of run_sells: the unsold remainder replaces the stocks; it is
\* not added to them.
run_sells_replaces_stocks(f, sells) ==
    [f EXCEPT !.sells = sells,
              !.stocks = f.products_value - sells,
              !.profit = sells - f.opex]

run_sells(f, sells) ==
    [f EXCEPT !.sells = sells,
              !.stocks = f.stocks + (f.products_value - sells),
              !.profit = sells - f.opex]

\* Mutant of pay_taxes: the tax is levied on the sells, not on the profit.
pay_taxes_on_sells(f) ==
    LET taxes == IF f.profit > 0 THEN (f.tax_rate * f.sells) \div PerCent ELSE 0
        profit_after_tax == f.profit - taxes
        capex == f.capex + profit_after_tax
    IN  [f EXCEPT !.taxes = taxes,
                  !.profit_after_tax = profit_after_tax,
                  !.capex = capex,
                  !.value = f.opex + capex]

\* Mutant of pay_taxes: a loss is taxed too, at the same rate, so that the
\* tax is negative and makes up for a part of the loss.
pay_taxes_refund(f) ==
    LET taxes == (f.tax_rate * f.profit) \div PerCent
        profit_after_tax == f.profit - taxes
        capex == f.capex + profit_after_tax
    IN  [f EXCEPT !.taxes = taxes,
                  !.profit_after_tax = profit_after_tax,
                  !.capex = capex,
                  !.value = f.opex + capex]

pay_taxes(f) ==
    LET taxes == IF f.profit > 0 THEN (f.tax_rate * f.profit) \div PerCent ELSE 0
        profit_after_tax == f.profit - taxes
        capex == f.capex + profit_after_tax
    IN  [f EXCEPT !.taxes = taxes,
                  !.profit_after_tax = profit_after_tax,
                  !.capex = capex,
                  !.value = f.opex + capex]

\* opex / employees, evaluated only when InvestRaises is FALSE.
CostPerHead(f) == f.opex \div f.employees

\* A division of investment_decision has a zero divisor.
InvestRaises(f, d) ==
    IF f.capex > 0
    THEN d.coin = 1 /\ (f.employees = 0 \/ f.opex = 0)
    ELSE f.employees = 0 \/ f.opex = 0

\* Mutant of max_hires: the quotient is rounded up, not down.
max_hires_rounded_up(f) == (f.capex + CostPerHead(f) - 1) \div CostPerHead(f)

max_hires(f) == f.capex \div CostPerHead(f)

\* Mutant of max_fires: the firing draw is bounded by the headcount, not
\* by the debt.
max_fires_headcount(f) == f.employees

max_fires(f) == (0 - f.capex) \div CostPerHead(f)

\* Outcomes of np.random.choice([0, 1]) and np.random.randint of
\* investment_decision: coin is the expansion roll, n the hires or fires.
InvestDraws(f) ==
    IF f.capex > 0
    THEN IF f.employees = 0 \/ f.opex = 0
         THEN { [coin |-> c, n |-> 0] : c \in {0, 1} }
         ELSE { [coin |-> 0, n |-> 0] } \cup
              ( IF max_hires(f) > 0
                THEN { [coin |-> 1, n |-> h] : h \in 1..max_hires(f) }
                ELSE { [coin |-> 1, n |-> 0] } )
    ELSE IF f.employees = 0 \/ f.opex = 0
         THEN { [coin |-> 0, n |-> 0] }
         ELSE { [coin |-> 0, n |-> k] : k \in 0..max_fires(f) }

\* Mutant of investment_decision: a dismissal saves the salary of the
\* sector, not the cost per head opex / employees.
investment_decision_saves_salary(f, d) ==
    IF InvestRaises(f, d) THEN f
    ELSE IF f.capex > 0
    THEN IF d.coin = 1 /\ max_hires(f) > 0
         THEN [f EXCEPT !.capex = f.capex - d.n * CostPerHead(f),
                        !.opex = f.opex + d.n * CostPerHead(f),
                        !.employees = f.employees + d.n]
         ELSE f
    ELSE [f EXCEPT !.opex = f.opex - d.n * f.salary,
                   !.employees = f.employees - d.n]

investment_decision(f, d) ==
    IF InvestRaises(f, d) THEN f
    ELSE IF f.capex > 0
    THEN IF d.coin = 1 /\ max_hires(f) > 0
         THEN [f EXCEPT !.capex = f.capex - d.n * CostPerHead(f),
                        !.opex = f.opex + d.n * CostPerHead(f),
                        !.employees = f.employees + d.n]
         ELSE f
    ELSE [f EXCEPT !.opex = f.opex - d.n * CostPerHead(f),
                   !.employees = f.employees - d.n]

\* The division -1*capex/opex of the bankruptcy check has a zero divisor.
CheckRaises(f) == f.capex < 0 /\ f.opex = 0

\* Mutant of check_bankrupt: any debt bankrupts, the ratio is not tested.
check_bankrupt_any_debt(f) ==
    IF f.capex < 0 THEN [f EXCEPT !.type = Bankrupt] ELSE f

\* Mutant of check_bankrupt: bankruptcy is marked by negating the sector
\* tag, self.type *= -1.
check_bankrupt_negate(f) ==
    IF f.capex < 0 /\ ~CheckRaises(f) /\ (0 - f.capex) * PerCent > BankruptPct * f.opex
    THEN [f EXCEPT !.type = 0 - f.type]
    ELSE f

\* "Check bankrupt state" of IndustryAgent.step: -1*capex/opex > 0.05.
check_bankrupt(f) ==
    IF f.capex < 0 /\ ~CheckRaises(f) /\ (0 - f.capex) * PerCent > BankruptPct * f.opex
    THEN [f EXCEPT !.type = Bankrupt]
    ELSE f

\* Mutant of Phases: the sector is not tested, a bankrupt firm keeps trading.
Phases_unguarded(f, sells, d) ==
    investment_decision(pay_taxes(run_sells(run_production(f), sells)), d)

\* The four phases, run only by a firm that is not bankrupt.
Phases(f, sells, d) ==
    IF f.type # Bankrupt
    THEN investment_decision(pay_taxes(run_sells(run_production(f), sells)), d)
    ELSE f

\* The firm after pay_taxes, on which investment_decision draws.
AfterTaxes(f, sells) == pay_taxes(run_sells(run_production(f), sells))

\* IndustryAgent.step raises with these draws.
StepRaises(f, sells, d) ==
    \/ f.type # Bankrupt /\ InvestRaises(AfterTaxes(f, sells), d)
    \/ CheckRaises(Phases(f, sells, d))

\* IndustryAgent.step: the firm it leaves behind.
step(f, sells, d) == check_bankrupt(Phases(f, sells, d))

----------------------------------------------------------------------------
(* Aggregates: model.py *)

\* sum() of the list [vals[i] for i in S].
RECURSIVE SumOver(_, _)
SumOver(S, vals) ==
    IF S = {} THEN 0
    ELSE LET i == CHOOSE j \in S : TRUE
         IN  vals[i] + SumOver(S \ {i}, vals)

\* max() of the list [vals[i] for i in S], for S not empty.
MaxOver(S, vals) == CHOOSE m \in { vals[i] : i \in S } : \A i \in S : vals[i] <= m

\* Mutant of compute_gdp: the bankrupt firms are not filtered out.
compute_gdp_all(fs) ==
    SumOver(Cells, [i \in Cells |-> fs[i].value])

compute_gdp(fs) ==
    SumOver({ i \in Cells : fs[i].type # Bankrupt }, [i \in Cells |-> fs[i].value])

compute_employment(fs, type) ==
    IF type = 1
    THEN SumOver({ i \in Cells : fs[i].type # Bankrupt },
                 [i \in Cells |-> fs[i].employees])
    ELSE SumOver(Cells, [i \in Cells |-> fs[i].employees])

\* The agents max_size_industry takes the maximum over.
SizeFilter(fs, industry_type) ==
    IF industry_type # AllSectors
    THEN { i \in Cells : fs[i].type = industry_type }
    ELSE { i \in Cells : fs[i].type # Bankrupt }

\* max() raises ValueError on an empty list.
MaxSizeRaises(fs, industry_type) == SizeFilter(fs, industry_type) = {}

max_size_industry_of(fs, industry_type) ==
    MaxOver(SizeFilter(fs, industry_type), [i \in Cells |-> fs[i].employees])

\* model_reporters of the DataCollector: both "Employment" and "Workers"
\* are compute_employment called with the model only (type = 0).
Collect(fs) ==
    [ GDP |-> compute_gdp(fs),
      Employment |-> compute_employment(fs, 0),
      Workers |-> compute_employment(fs, 0) ]

----------------------------------------------------------------------------
(* EconomicSystemModel: model.py *)

\* The metrics __init__ and step compute after collecting, in the order of
\* the code; a max() over no firm raises and leaves the rest as it was.
Metrics(fs, old_services, old_industry, old_industries) ==
    LET raises1 == MaxSizeRaises(fs, Services)
        raises0 == MaxSizeRaises(fs, Industry)
        raises2 == MaxSizeRaises(fs, AllSectors)
    IN  [ gdp |-> compute_gdp(fs),
          work_force |-> compute_employment(fs, 0),
          employment |-> compute_employment(fs, 1),
          max_size_services |->
              IF raises1 THEN old_services ELSE max_size_industry_of(fs, Services),
          max_size_industry |->
              IF raises1 \/ raises0 THEN old_industry
              ELSE max_size_industry_of(fs, Industry),
          max_size_industries |->
              IF raises1 \/ raises0 \/ raises2 THEN old_industries
              ELSE max_size_industry_of(fs, AllSectors),
          raised |-> raises1 \/ raises0 \/ raises2 ]

\* EconomicSystemModel.__init__ with n workers and the firms fs.  The first
\* worker placed raises (py has height - 1 entries for height cells), before
\* any worker or firm exists; with no worker the firms are created and the initial
\* conditions computed.
Init ==
    /\ nsteps \in Horizons
    /\ bankrupt \in BankruptConfigs
    /\ workers = << >>
    /\ nworkers \in 0..MaxWorkers
    /\ steps = 0
    /\ calls = 0
    /\ todo = {}
    /\ IF nworkers > 0
       THEN /\ firms = << >>
            /\ running = FALSE
            /\ model_vars = [GDP |-> Unassigned, Employment |-> Unassigned,
                             Workers |-> Unassigned]
            /\ gdp = Unassigned
            /\ work_force = Unassigned
            /\ employment = Unassigned
            /\ max_size_services = Unassigned
            /\ max_size_industry = Unassigned
            /\ max_size_industries = Unassigned
            /\ pc = "failed"
            /\ err = ErrWorker
       ELSE /\ firms \in { FirmsOf(idx) : idx \in Populations }
            /\ running = TRUE
            /\ model_vars = Collect(firms)
            /\ LET m == Metrics(firms, Unassigned, Unassigned, Unassigned)
               IN  /\ gdp = m.gdp
                   /\ work_force = m.work_force
                   /\ employment = m.employment
                   /\ max_size_services = m.max_size_services
                   /\ max_size_industry = m.max_size_industry
                   /\ max_size_industries = m.max_size_industries
                   /\ pc = IF m.raised THEN "failed" ELSE "idle"
                   /\ err = IF m.raised THEN ErrMaxEmpty ELSE NoError

\* A call of EconomicSystemModel.step enters self.schedule.step(): the
\* scheduler shuffles the agents and visits each of them once.
BeginStep ==
    /\ pc = "idle"
    /\ calls < MaxCalls
    /\ calls' = calls + 1
    /\ todo' = Cells
    /\ pc' = "agents"
    /\ err' = NoError
    /\ UNCHANGED << firms, workers, bankrupt, nworkers, nsteps, steps, running,
                    gdp, work_force, employment, max_size_services,
                    max_size_industry, max_size_industries, model_vars >>

\* The scheduler visits firm i: IndustryAgent.step.  An exception leaves the
\* scheduler and the model step at once.
FirmStep(i) ==
    /\ pc = "agents"
    /\ i \in todo
    /\ \E sells \in SellsDraws(run_production(firms[i])) :
         \E d \in InvestDraws(AfterTaxes(firms[i], sells)) :
            /\ firms' = [firms EXCEPT ![i] = step(firms[i], sells, d)]
            /\ IF StepRaises(firms[i], sells, d)
               THEN /\ err' = ErrZeroDiv
                    /\ todo' = {}
                    /\ pc' = "idle"
               ELSE /\ err' = err
                    /\ todo' = todo \ {i}
                    /\ pc' = pc
    /\ UNCHANGED << workers, bankrupt, nworkers, nsteps, steps, running, gdp,
                    work_force, employment, max_size_services,
                    max_size_industry, max_size_industries, model_vars,
                    calls >>

\* Mutant of FinishStep: the model does not wait for the scheduler; it
\* counts the step and recomputes the metrics with agents still to visit.
FinishStep_early ==
    /\ pc = "agents"
    /\ steps' = steps + 1
    /\ model_vars' = Collect(firms)
    /\ LET m == Metrics(firms, max_size_services, max_size_industry,
                        max_size_industries)
       IN  /\ gdp' = m.gdp
           /\ work_force' = m.work_force
           /\ employment' = m.employment
           /\ max_size_services' = m.max_size_services
           /\ max_size_industry' = m.max_size_industry
           /\ max_size_industries' = m.max_size_industries
           /\ err' = IF m.raised THEN ErrMaxEmpty ELSE NoError
           /\ running' = IF ~m.raised /\ steps' = nsteps THEN FALSE ELSE running
    /\ pc' = "idle"
    /\ UNCHANGED << firms, workers, bankrupt, nworkers, nsteps, todo, calls >>

\* Mutant of FinishStep: running is assigned the outcome of the horizon
\* test, self.running = self.schedule.steps != self.nsteps.
FinishStep_rearms ==
    /\ pc = "agents"
    /\ todo = {}
    /\ steps' = steps + 1
    /\ model_vars' = Collect(firms)
    /\ LET m == Metrics(firms, max_size_services, max_size_industry,
                        max_size_industries)
       IN  /\ gdp' = m.gdp
           /\ work_force' = m.work_force
           /\ employment' = m.employment
           /\ max_size_services' = m.max_size_services
           /\ max_size_industry' = m.max_size_industry
           /\ max_size_industries' = m.max_size_industries
           /\ err' = IF m.raised THEN ErrMaxEmpty ELSE NoError
           /\ running' = IF m.raised THEN running ELSE steps' # nsteps
    /\ pc' = "idle"
    /\ UNCHANGED << firms, workers, bankrupt, nworkers, nsteps, todo, calls >>

\* Every agent was visited: the scheduler counts the step, the datacollector
\* collects, the metrics are recomputed and the horizon is tested.
FinishStep ==
    /\ pc = "agents"
    /\ todo = {}
    /\ steps' = steps + 1
    /\ model_vars' = Collect(firms)
    /\ LET m == Metrics(firms, max_size_services, max_size_industry,
                        max_size_industries)
       IN  /\ gdp' = m.gdp
           /\ work_force' = m.work_force
           /\ employment' = m.employment
           /\ max_size_services' = m.max_size_services
           /\ max_size_industry' = m.max_size_industry
           /\ max_size_industries' = m.max_size_industries
           /\ err' = IF m.raised THEN ErrMaxEmpty ELSE NoError
           /\ running' = IF ~m.raised /\ steps' = nsteps THEN FALSE ELSE running
    /\ pc' = "idle"
    /\ UNCHANGED << firms, workers, bankrupt, nworkers, nsteps, todo, calls >>

Next ==
    \/ BeginStep
    \/ \E i \in Cells : FirmStep(i)
    \/ FinishStep

Spec == Init /\ [][Next]_vars

----------------------------------------------------------------------------
(* Agents stepped on their own: agent_industry.py, agent_worker.py *)

\* Employee counts of the firm of the worked examples: divisors of its opex.
ScenarioEmployees == {1, 2, 4, 5, 8, 10, 20, 25, 40, 50, 100, 125, 200}

\* IndustryAgent.__init__ with the draws of the worked examples: a Services
\* firm with opex 1,000,000, capex 0, profit rate 1.05, tax rate 0.2, no
\* stocks and e employees.
ScenarioFirm(e) ==
    [ NewIndustryAgent(Services,
          [ opex |-> 1000000, capex_pct |-> 0, salary |-> 2000,
            opex_fc |-> 50, profit_rate |-> 1050, stocks_fc |-> 0 ])
      EXCEPT !.employees = e ]

\* WorkerAgent.__init__.
NewWorkerAgent(state) ==
    [ state |-> state, skill |-> 0, worth |-> WorkerWorth,
      salary |-> WorkerSalary,
      income_tax |-> (IncomeTaxPct * WorkerSalary) \div PerCent,
      employer |-> 0, experience |-> 0, idle_time |-> 0 ]

\* The workers stepped on their own: an employed and an unemployed one.
WorkerIds == {1, 2}

\* One firm and two workers, constructed and not in any schedule.
InitAgents ==
    /\ firms \in { << ScenarioFirm(e) >> : e \in ScenarioEmployees }
    /\ workers = << NewWorkerAgent(1), NewWorkerAgent(0) >>
    /\ bankrupt = BankruptDefault
    /\ nworkers = 0
    /\ nsteps = MaxCalls
    /\ steps = 0
    /\ running = TRUE
    /\ model_vars = [GDP |-> Unassigned, Employment |-> Unassigned,
                     Workers |-> Unassigned]
    /\ gdp = Unassigned
    /\ work_force = Unassigned
    /\ employment = Unassigned
    /\ max_size_services = Unassigned
    /\ max_size_industry = Unassigned
    /\ max_size_industries = Unassigned
    /\ pc = "made"
    /\ todo = {}
    /\ calls = 0
    /\ err = NoError

\* IndustryAgent.step called on the firm; calls counts the steps it took.
AgentFirmStep ==
    /\ calls < MaxCalls
    /\ \E sells \in SellsDraws(run_production(firms[1])) :
         \E d \in InvestDraws(AfterTaxes(firms[1], sells)) :
            /\ firms' = [firms EXCEPT ![1] = step(firms[1], sells, d)]
            /\ err' = IF StepRaises(firms[1], sells, d)
                      THEN ErrZeroDiv ELSE NoError
    /\ calls' = calls + 1
    /\ pc' = "firm"
    /\ UNCHANGED << workers, bankrupt, nworkers, nsteps, steps, running, gdp,
                    work_force, employment, max_size_services,
                    max_size_industry, max_size_industries, model_vars,
                    todo >>

\* WorkerAgent.step called on worker k: self.career_decision() is looked up
\* on a class that does not define it.
WorkerStep(k) ==
    /\ k \in DOMAIN workers
    /\ err' = ErrAttribute
    /\ pc' = "worker"
    /\ UNCHANGED << firms, workers, bankrupt, nworkers, nsteps, steps, running,
                    gdp, work_force, employment, max_size_services,
                    max_size_industry, max_size_industries, model_vars,
                    todo, calls >>

NextAgents ==
    \/ AgentFirmStep
    \/ \E k \in WorkerIds : WorkerStep(k)

SpecAgents == InitAgents /\ [][NextAgents]_vars

----------------------------------------------------------------------------
(* The initial conditions of a firm over the range of their draws *)

\* Outcomes of the draws of IndustryAgent.__init__ for a firm of a sector:
\* the ends of the uniform ranges, and for the normal draws values below
\* the floor, at it and above it.
CreateDraws(type) ==
    [ opex : {0 - 200000, 500, 1000, 40000, 1000000},
      capex_pct : {0 - 1, 0, 2, 5},
      salary : {0 - 100, 600, 2000},
      opex_fc : IF type = Services THEN {40, 70} ELSE {0 - 100, 20, 150},
      profit_rate : {900, 1001, 1050},
      stocks_fc : IF type = Services THEN {0, 10} ELSE {0, 6} ]

\* No firm has been constructed yet.
InitCreate ==
    /\ firms = << >>
    /\ workers = << >>
    /\ bankrupt = BankruptDefault
    /\ nworkers = 0
    /\ nsteps = MaxCalls
    /\ steps = 0
    /\ running = TRUE
    /\ model_vars = [GDP |-> Unassigned, Employment |-> Unassigned,
                     Workers |-> Unassigned]
    /\ gdp = Unassigned
    /\ work_force = Unassigned
    /\ employment = Unassigned
    /\ max_size_services = Unassigned
    /\ max_size_industry = Unassigned
    /\ max_size_industries = Unassigned
    /\ pc = "drawing"
    /\ todo = {}
    /\ calls = 0
    /\ err = NoError

\* IndustryAgent.__init__ for a sector drawn by np.random.choice([0, 1, -1]).
CreateFirm ==
    /\ pc = "drawing"
    /\ \E type \in {Industry, Services, Bankrupt} :
         \E d \in CreateDraws(type) :
            firms' = << NewIndustryAgent(type, d) >>
    /\ pc' = "created"
    /\ UNCHANGED << workers, bankrupt, nworkers, nsteps, steps, running, gdp,
                    work_force, employment, max_size_services,
                    max_size_industry, max_size_industries, model_vars,
                    todo, calls, err >>

SpecCreate == InitCreate /\ [][CreateFirm]_vars

----------------------------------------------------------------------------
(* Soundness of the integer arithmetic *)

\* Every division the operators above make on a reachable firm is exact,
\* so no rounding of the model stands between it and the code.
ExactArithmetic ==
    \A i \in DOMAIN firms :
        LET f == firms[i]
        IN  /\ f.employees >= 1 => f.opex % f.employees = 0
            /\ (f.profit_rate * f.opex) % PerMille = 0
            /\ f.profit > 0 => (f.tax_rate * f.profit) % PerCent = 0
            /\ f.sells % SellsGrid = 0

----------------------------------------------------------------------------
(* Properties *)

Solvent(i) == firms[i].type # Bankrupt

AllBankrupt == \A i \in DOMAIN firms : firms[i].type = Bankrupt

\* Firm i has run its four phases at least once (sells is 0 until then).
HasTraded(i) == firms[i].sells > 0

\* The scheduler visits firm i in this transition.
Visited(i) == pc = "agents" /\ i \in todo /\ i \notin todo'

SumValueSolvent ==
    SumOver({ i \in DOMAIN firms : firms[i].type # Bankrupt },
            [i \in DOMAIN firms |-> firms[i].value])

SumEmployeesAll ==
    SumOver(DOMAIN firms, [i \in DOMAIN firms |-> firms[i].employees])

SumEmployeesSolvent ==
    SumOver({ i \in DOMAIN firms : firms[i].type # Bankrupt },
            [i \in DOMAIN firms |-> firms[i].employees])

\* C1: after every completed step of any firm, value = opex + capex.
C1_ValueIsOpexPlusCapex ==
    \A i \in DOMAIN firms : firms[i].value = firms[i].opex + firms[i].capex

\* C2: a firm that is Industry or Services before its step is Bankrupt
\* after it if and only if, on the values at the end of the step, capex < 0
\* and |capex| / opex > 5%; a solvent firm becomes Bankrupt in no other
\* transition.
C2_BankruptIff ==
    [][ \A i \in DOMAIN firms :
          LET debt == firms'[i].capex < 0 /\
                      (0 - firms'[i].capex) * 100 > 5 * firms'[i].opex
          IN  /\ (Visited(i) /\ firms[i].type # Bankrupt)
                    => (firms'[i].type = Bankrupt <=> debt)
              /\ (firms[i].type # Bankrupt /\ firms'[i].type = Bankrupt)
                    => (Visited(i) /\ debt) ]_vars

\* A firm went Bankrupt in a step and another finished a step in debt below
\* the threshold and is still solvent.
C2_Witness ==
    \E i, j \in DOMAIN firms :
        /\ firms[i].type = Bankrupt /\ HasTraded(i)
        /\ firms[j].type # Bankrupt /\ HasTraded(j) /\ firms[j].capex < 0

\* C3: Bankrupt is absorbing: a firm that is Bankrupt is Bankrupt after
\* every transition.
C3_BankruptAbsorbing ==
    [][ \A i \in DOMAIN firms :
          firms[i].type = Bankrupt => firms'[i].type = Bankrupt ]_vars

\* The previous model step ended with no solvent firm (gdp, the sum of the
\* positive values of the solvent firms, is 0), and in this step the
\* scheduler has visited a firm that went Bankrupt during the run.
C3_Witness ==
    /\ pc = "agents"
    /\ steps >= 1
    /\ gdp = 0
    /\ \E i \in DOMAIN firms :
          i \notin todo /\ firms[i].type = Bankrupt /\ HasTraded(i)

\* C4: every firm whose sector is not Bankrupt has employees >= 1.
C4_SolventHasEmployees ==
    \A i \in DOMAIN firms : firms[i].type # Bankrupt => firms[i].employees >= 1

\* A solvent firm fired in its latest step: its opex fell after value was
\* computed, and it is still solvent.
C4_Witness ==
    \E i \in DOMAIN firms :
        /\ firms[i].type # Bankrupt
        /\ HasTraded(i)
        /\ firms[i].capex < 0
        /\ firms[i].value > firms[i].opex + firms[i].capex

\* C5: between calls, running is true while fewer than nsteps model steps
\* were made and false once nsteps model steps were made.
C5_HaltsExactlyAtHorizon ==
    pc = "idle" =>
        /\ calls < nsteps => running
        /\ calls = nsteps => ~running

\* C6: a model step before the horizon that starts with every firm Bankrupt
\* (gdp is 0 after a previous step) completes normally with zero GDP and
\* zero employment, and sets running to false when the step counter
\* reaches nsteps.
C6_AllBankruptRunsToHorizon ==
    [][ (/\ pc = "agents" /\ pc' = "idle"
         /\ steps >= 1 /\ steps < nsteps
         /\ AllBankrupt /\ gdp = 0)
          => /\ err' = NoError
             /\ gdp' = 0
             /\ employment' = 0
             /\ steps' = nsteps => ~running' ]_vars

C8_BothAggregatesTracked ==
    pc = "idle" =>
        /\ work_force = SumEmployeesAll
        /\ employment = SumEmployeesSolvent
        /\ model_vars.Employment = SumEmployeesSolvent
        /\ (\A i \in DOMAIN firms : Solvent(i)) => work_force = employment

\* C9: neither construction nor a model step is aborted by the maximum
\* firm size of a sector with no firm.
C9_MaxSizeNeverAborts == err # ErrMaxEmpty

\* C10: stocks >= 0 for every firm.
C10_StocksNonNegative ==
    \A i \in DOMAIN firms : firms[i].stocks >= 0

\* A firm sold less than it had to sell and keeps the rest as stocks.
C10_Witness ==
    \E i \in DOMAIN firms :
        /\ HasTraded(i)
        /\ firms[i].sells < firms[i].products_value
        /\ firms[i].stocks > 0

\* C11: the bankruptcy transition uses the configured threshold: a solvent
\* firm that ends its step with capex < 0 is Bankrupt after it if and only
\* if |capex| / opex > bankrupt / 100, for the bankrupt the model was
\* constructed with.
C11_ConfiguredThreshold ==
    [][ \A i \in DOMAIN firms :
          (Visited(i) /\ firms[i].type # Bankrupt /\ firms'[i].capex < 0)
            => (firms'[i].type = Bankrupt
                  <=> (0 - firms'[i].capex) * PerCent
                          > bankrupt * firms'[i].opex) ]_vars

\* The firm of the worked examples has taken exactly one step.
AfterFirstStep == calls = 1

\* C12 as stated: after one full step with sells = products_value the
\* firm has profit 50,000, taxes 10,000, profit_after_tax 40,000,
\* capex 40,000 and value 1,040,000 and is still Services, whatever its
\* number of employees.
C12_ProfitableStepAsStated ==
    (AfterFirstStep /\ firms[1].sells = firms[1].products_value)
        => /\ firms[1].profit = 50000
           /\ firms[1].taxes = 10000
           /\ firms[1].profit_after_tax = 40000
           /\ firms[1].capex = 40000
           /\ firms[1].value = 1040000
           /\ firms[1].type = Services

\* C12 amended: after one full step with sells = products_value the firm
\* has profit 50,000, taxes 10,000, profit_after_tax 40,000 and value
\* 1,040,000 and is still Services; capex is 40,000 less what the step
\* moved into opex by hiring, so capex = 40,000 when it hired nobody and
\* 0 <= capex < 40,000 with opex + capex = 1,040,000 when it hired.
C12_ProfitableStep ==
    (AfterFirstStep /\ firms[1].sells = firms[1].products_value)
        => /\ firms[1].profit = 50000
           /\ firms[1].taxes = 10000
           /\ firms[1].profit_after_tax = 40000
           /\ firms[1].value = 1040000
           /\ firms[1].type = Services
           /\ firms[1].opex + firms[1].capex = 1040000
           /\ firms[1].opex = 1000000 => firms[1].capex = 40000
           /\ firms[1].opex > 1000000
                 => firms[1].capex >= 0 /\ firms[1].capex < 40000

\* The firm sold everything in its first step and did not hire.
C12_Witness ==
    /\ AfterFirstStep
    /\ firms[1].sells = firms[1].products_value
    /\ firms[1].opex = 1000000
    /\ firms[1].capex = 40000

\* C13: after one full step in which the sells draw is the minimum of its
\* range, 945,000, the firm of the worked examples has profit -55,000,
\* taxes 0 and capex -55,000 and is Bankrupt, whatever its number of
\* employees and however many of them it fired.
C13_LossStep ==
    (AfterFirstStep /\ firms[1].sells = 945000)
        => /\ firms[1].profit = 0 - 55000
           /\ firms[1].taxes = 0
           /\ firms[1].capex = 0 - 55000
           /\ firms[1].type = Bankrupt

\* The firm sold the minimum in its first step and fired at least two
\* employees: its opex is below the 1,000,000 it started with.
C13_Witness ==
    /\ AfterFirstStep
    /\ firms[1].sells = 945000
    /\ firms[1].opex < 1000000
    /\ firms[1].value - firms[1].capex - firms[1].opex
          >= 2 * CostPerHead(firms[1])

\* C14: the step of a worker completes normally and changes no other
\* agent: it raises no error and leaves the fields of every firm and of
\* every other worker as they were.
C14_WorkerStepHarmless ==
    [][ pc' = "worker"
          => /\ err' = NoError
             /\ firms' = firms
             /\ \E k \in DOMAIN workers :
                   \A j \in DOMAIN workers \ {k} : workers'[j] = workers[j]
      ]_vars

\* The metrics of the model and the row of the datacollector.
MetricsOf ==
    << gdp, work_force, employment, max_size_services, max_size_industry,
       max_size_industries, model_vars >>

C16_BankruptInert ==
    [][ \A i \in DOMAIN firms :
          (Visited(i) /\ firms[i].type = Bankrupt)
            => /\ firms'[i].opex = firms[i].opex
               /\ firms'[i].capex = firms[i].capex
               /\ firms'[i].employees = firms[i].employees
               /\ firms'[i].stocks = firms[i].stocks
               /\ firms'[i].products_value = firms[i].products_value
               /\ firms'[i].sells = firms[i].sells
               /\ firms'[i].profit = firms[i].profit
               /\ firms'[i].taxes = firms[i].taxes
               /\ firms'[i].profit_after_tax = firms[i].profit_after_tax
               /\ firms'[i].value = firms[i].value ]_vars

\* Every firm went Bankrupt in the first model step (the employment it
\* left is 0), and in the second the scheduler has visited them all, among
\* them one in debt that holds stocks.
C16_Witness ==
    /\ pc = "agents"
    /\ steps = 1
    /\ todo = {}
    /\ employment = 0
    /\ \A i \in DOMAIN firms : firms[i].type = Bankrupt /\ HasTraded(i)
    /\ \E j \in DOMAIN firms : firms[j].capex < 0 /\ firms[j].stocks > 0

\* C17: no step of a firm divides by zero: employees > 0 whenever
\* opex / employees is evaluated, opex > 0 whenever |capex| / opex is, on
\* firms already Bankrupt too; opex > 0 for every firm in every state.
C17_NoDivisionByZero ==
    /\ err # ErrZeroDiv
    /\ \A i \in DOMAIN firms :
          /\ firms[i].opex > 0
          /\ firms[i].type # Bankrupt => firms[i].employees > 0

\* In the second model step the scheduler has visited every firm, all of
\* them Bankrupt since the first, no step raised, and one of them is in
\* debt (the check divided by its opex again) after it had fired.
C17_Witness ==
    /\ pc = "agents"
    /\ steps = 1
    /\ todo = {}
    /\ err = NoError
    /\ employment = 0
    /\ \E i \in DOMAIN firms :
          /\ firms[i].type = Bankrupt
          /\ firms[i].capex < 0
          /\ firms[i].value > firms[i].opex + firms[i].capex

\* C18: a firm the initializer produces has opex > 0, capex between -1%
\* and +5% of opex, employees >= 1, profit_rate > 1.0, stocks >= 0 and
\* value = opex + capex, so an Industry or Services firm does not meet the
\* bankruptcy condition before its first step.
C18_InitialConditions ==
    \A i \in DOMAIN firms :
        LET f == firms[i]
        IN  /\ f.opex > 0
            /\ PerCent * f.capex >= 0 - f.opex
            /\ PerCent * f.capex <= 5 * f.opex
            /\ f.employees >= 1
            /\ f.profit_rate > PerMille
            /\ f.stocks >= 0
            /\ f.value = f.opex + f.capex
            /\ f.type # Bankrupt
                  => ~(f.capex < 0 /\
                       (0 - f.capex) * PerCent > BankruptPct * f.opex)

\* A solvent firm was created with every floor of the initializers in
\* force and the deepest debt that can be drawn.
C18_Witness ==
    /\ pc = "created"
    /\ firms[1].type # Bankrupt
    /\ firms[1].opex = MinOpex
    /\ firms[1].salary = MinSalary
    /\ firms[1].employees = 1
    /\ firms[1].profit_rate = MinProfitRate
    /\ PerCent * firms[1].capex = 0 - firms[1].opex

\* capex of firm i at the end of the tax phase of the step this transition
\* takes: value is opex + capex there, and opex is still what it was.
CapexAfterTaxes(i) == firms'[i].value - firms[i].opex

\* C19: expansion never creates debt: a firm that enters the investment
\* phase with capex > 0 leaves it with capex >= 0, with opex + capex as it
\* was and with no fewer employees, whatever the roll and the number of
\* hires, and so is not Bankrupt at the end of that step.
C19_ExpansionWithinCapex ==
    [][ \A i \in DOMAIN firms :
          (/\ firms'[i] # firms[i]
           /\ firms[i].type # Bankrupt
           /\ CapexAfterTaxes(i) > 0)
            => /\ firms'[i].capex >= 0
               /\ firms'[i].opex + firms'[i].capex
                     = firms[i].opex + CapexAfterTaxes(i)
               /\ firms'[i].employees >= firms[i].employees
               /\ firms'[i].type # Bankrupt ]_vars

\* The firm spent all its capex on hires, eight of them, in its first step.
C19_Witness ==
    /\ AfterFirstStep
    /\ firms[1].profit_after_tax > 0
    /\ firms[1].capex = 0
    /\ firms[1].opex = 1040000
    /\ firms[1].employees = 208

\* C20: the cost per head opex / employees of a firm is the same over its
\* whole life: no transition changes the ratio of opex to employees, so
\* opex * employees_at_creation = opex_at_creation * employees throughout.
C20_CostPerHeadConstant ==
    [][ \A i \in DOMAIN firms :
          firms'[i].opex * firms[i].employees
              = firms[i].opex * firms'[i].employees ]_vars

\* A firm created with 40 employees at 1000 a head has hired, and another
\* firm has fired in its latest step (its value is that of the tax phase).
C20_Witness ==
    \E i, j \in DOMAIN firms :
        /\ firms[i].employees > 40
        /\ firms[i].opex = 1000 * firms[i].employees
        /\ firms[j].value > firms[j].opex + firms[j].capex
        /\ firms[j].opex = CostPerHead(firms[j]) * firms[j].employees

\* C21: the stocks of a firm never decrease: after every step of a firm
\* its stocks are at least what they were before it, the unsold remainder
\* being added to the stocks it had.
C21_StocksNeverDecrease ==
    [][ \A i \in DOMAIN firms : firms'[i].stocks >= firms[i].stocks ]_vars

\* A firm has run its phases with stocks carried over: what it holds now
\* is more than the remainder it did not sell in its latest step.
C21_Witness ==
    \E i \in DOMAIN firms :
        /\ HasTraded(i)
        /\ firms[i].products_value > firms[i].sells
        /\ firms[i].stocks > firms[i].products_value - firms[i].sells

\* C22: running is set to false only in a model step that leaves the step
\* counter equal to nsteps, and is never set back to true: once false it
\* is false after every further call of the model step, and such a call
\* still steps every agent and advances the step counter.
C22_RunningOnlyFalls ==
    [][ /\ (running /\ ~running')
              => (pc = "agents" /\ pc' = "idle" /\ steps' = nsteps)
        /\ ~running => ~running'
        /\ (~running /\ pc = "agents" /\ pc' = "idle")
              => (todo = {} /\ steps' = steps + 1) ]_vars

\* The model was stepped once more after the step that halted it: the
\* step counter is past nsteps, a firm ran its phases in that call, and
\* running is still false.
C22_Witness ==
    /\ pc = "idle"
    /\ ~running
    /\ steps = nsteps + 1
    /\ calls = steps
    /\ \E i \in DOMAIN firms : Solvent(i) /\ HasTraded(i)

====
